---- MODULE Spec2Model ----
(***************************************************************************)
(* The election ledger of election-vote-blockchain-backend: the Block and  *)
(* Blockchain classes (src/core/blockchain.js) and the request handlers of *)
(* src/api/publicRoutes.js and src/api/adminRoutes.js that drive them.     *)
(*                                                                         *)
(* The server is one Node.js process: a handler runs without interruption  *)
(* up to an `await`, and other handlers run while it is suspended there.   *)
(* Every action below is one such uninterrupted run.                       *)
(***************************************************************************)
EXTENDS Integers, Sequences, FiniteSets, TLC

VARIABLES
    chain,                \* Blockchain.chain: sequence of blocks
    pendingTransactions,  \* Blockchain.pendingTransactions
    votedUsers,           \* Blockchain.votedUsers
    registeredVoters,     \* Blockchain.registeredVoters
    isElectionOpen,       \* Blockchain.isElectionOpen
    isLoaded,             \* Blockchain.isLoaded
    mining,               \* minePendingTransactions calls suspended at an await
    now,                  \* the value Date.now() returned last
    admitted,             \* history: the transactions createVote has pushed
    returned,             \* history: the chain positions whose sealing call returned
    last,                 \* the outcome of the most recent call
    blocksCollection,     \* the store: the documents of the collection of blocks
    electionStateDoc,     \* the store: the election state document
    restarts              \* history: how many times the server was started again

vars == <<chain, pendingTransactions, votedUsers, registeredVoters,
          isElectionOpen, isLoaded, mining, now, admitted, returned, last,
          blocksCollection, electionStateDoc, restarts>>

(***************************************************************************)
(* Bounds of the model.                                                    *)
(***************************************************************************)
MaxEvents == 3
HashSpace == 4

(***************************************************************************)
(* Program constants.                                                      *)
(***************************************************************************)
difficulty == 3
miningReward == 1
GenesisTimestamp == 20230101

candidates ==
    << [id |-> "candidateA", name |-> "Alice Smith"],
       [id |-> "candidateB", name |-> "Bob Johnson"],
       [id |-> "candidateC", name |-> "Charlie Brown"] >>

CandidateIds == {candidates[i].id : i \in DOMAIN candidates}

(***************************************************************************)
(* Request inputs. "" stands for a missing, null or empty field (every     *)
(* value `!x` is true of).                                                 *)
(***************************************************************************)
VoterInputs == {"", "v1", "v2"}
CandidateInputs == {"", "candidateA", "candidateX"}
MinerInputs == {"", "election-authority-miner"}
StatusInputs ==
    { [typeof |-> "boolean", value |-> TRUE],
      [typeof |-> "boolean", value |-> FALSE],
      [typeof |-> "string", value |-> TRUE] }

Truthy(x) == x # ""

(***************************************************************************)
(* Hashing. SHA256 is modelled as a collision-free digest: the digest of   *)
(* an input is a value that determines the input. Its hex text is not      *)
(* modelled; the number of leading zero characters of the text is a fixed  *)
(* function of the input (ZeroPrefix).                                     *)
(***************************************************************************)
ZeroHash == [lit |-> "0", pre |-> <<>>]

SHA256(input) == [lit |-> "", pre |-> input]

\* JSON.stringify of a transaction: its own fields, in insertion order.
TransactionFields(t) ==
    IF t.type = "vote"
    THEN << <<"voterId", t.voterId>>, <<"candidateId", t.candidateId>>,
            <<"timestamp", t.timestamp>>, <<"type", t.type>> >>
    ELSE << <<"fromAddress", t.fromAddress>>, <<"toAddress", t.toAddress>>,
            <<"amount", t.amount>>, <<"timestamp", t.timestamp>>, <<"type", t.type>> >>

\* JSON.stringify(block.data): a quoted string, or the array of its elements' texts.
JSONstringify(data) ==
    IF data.kind = "array"
    THEN [json |-> "array", str |-> "",
          elems |-> [i \in DOMAIN data.items |-> TransactionFields(data.items[i])]]
    ELSE [json |-> "string", str |-> data.str, elems |-> <<>>]

\* HashInput leaving the block's data out of the digest
HashInputNoData(b) ==
    <<b.index, b.previousHash, b.timestamp,
      [json |-> "string", str |-> "", elems |-> <<>>], b.nonce>>

HashInput(b) == <<b.index, b.previousHash, b.timestamp, JSONstringify(b.data), b.nonce>>

calculateHash(b) == SHA256(HashInput(b))

Scramble(h) ==
    IF h.pre = <<>> THEN 1
    ELSE (h.pre[1] + h.pre[3] + Len(h.pre[4].elems) + h.pre[5] + 1) % HashSpace

ZeroPrefix(h) ==
    IF Scramble(h) = 0 THEN difficulty ELSE (Scramble(h) - 1) % difficulty

MeetsDifficulty(h, d) == ZeroPrefix(h) >= d

Block(index, timestamp, data, previousHash) ==
    LET b0 == [index |-> index, timestamp |-> timestamp, data |-> data,
               previousHash |-> previousHash, nonce |-> 0, hash |-> ZeroHash]
    IN  [b0 EXCEPT !.hash = calculateHash(b0)]

\* mineBlock as a do-while loop: the nonce is incremented before the first test
RECURSIVE mineBlockDoWhile(_, _)
mineBlockDoWhile(b, d) ==
    LET b1 == [b EXCEPT !.nonce = b.nonce + 1]
        b2 == [b1 EXCEPT !.hash = calculateHash(b1)]
    IN  IF MeetsDifficulty(b2.hash, d) THEN b2 ELSE mineBlockDoWhile(b2, d)

RECURSIVE mineBlock(_, _)
mineBlock(b, d) ==
    IF MeetsDifficulty(b.hash, d) THEN b
    ELSE LET b1 == [b EXCEPT !.nonce = b.nonce + 1]
         IN  mineBlock([b1 EXCEPT !.hash = calculateHash(b1)], d)

StringData(s) == [kind |-> "string", str |-> s, items |-> <<>>]
ArrayData(items) == [kind |-> "array", str |-> "", items |-> items]
IsArray(data) == data.kind = "array"

createGenesisBlock == Block(0, GenesisTimestamp, StringData("Genesis Block (Election Start)"), ZeroHash)

getLatestBlock == chain[Len(chain)]

(***************************************************************************)
(* Transactions.                                                           *)
(***************************************************************************)
VoteTransaction(voterId, candidateId, timestamp) ==
    [voterId |-> voterId, candidateId |-> candidateId,
     timestamp |-> timestamp, type |-> "vote"]

RewardTransaction(minerAddress, timestamp) ==
    [fromAddress |-> "null", toAddress |-> minerAddress, amount |-> miningReward,
     timestamp |-> timestamp, type |-> "miningReward"]

\* JSON.parse of a transaction's text: an object with the fields the text lists.
ParseTransaction(f) ==
    IF f[1][1] = "voterId"
    THEN [voterId |-> f[1][2], candidateId |-> f[2][2], timestamp |-> f[3][2], type |-> f[4][2]]
    ELSE [fromAddress |-> f[1][2], toAddress |-> f[2][2], amount |-> f[3][2],
          timestamp |-> f[4][2], type |-> f[5][2]]

\* JSON.parse(JSON.stringify(this.pendingTransactions))
\* DeepCopy handing the transactions back in reverse order
DeepCopyReversed(txs) ==
    [i \in DOMAIN txs |-> ParseTransaction(TransactionFields(txs[Len(txs) + 1 - i]))]

DeepCopy(txs) == [i \in DOMAIN txs |-> ParseTransaction(TransactionFields(txs[i]))]

\* IsVote with the type tag misspelt
IsVoteMisspelt(t) == t.type = "Vote" /\ Truthy(t.voterId)

IsVote(t) == t.type = "vote" /\ Truthy(t.voterId)

\* Date.now() never goes back; it may return the same value twice.
DateNow == {now, now + 1}

\* A run holds at most MaxEvents admissions, sealings, clock ticks and restarts.
Events == Len(admitted) + (IF Len(chain) = 0 THEN 0 ELSE Len(chain) - 1) + now + restarts

CanSpend(n) == Events + n <= MaxEvents

(***************************************************************************)
(* Initial state: `new Blockchain()`.                                      *)
(***************************************************************************)
\* the value a call returned, for the calls that return one: isChainValid's
\* boolean, getElectionResults' object
NoValue ==
    [valid |-> FALSE,
     results |-> [c \in CandidateIds |-> [name |-> "", votes |-> 0]]]

NoCall ==
    [op |-> "none", voterId |-> "", candidateId |-> "", error |-> "none",
     value |-> NoValue]

Outcome(op, voterId, candidateId, error) ==
    [op |-> op, voterId |-> voterId, candidateId |-> candidateId, error |-> error,
     value |-> NoValue]

\* the election state document: missing, or what saveElectionStateToDatabase
\* wrote (the arrays of voters as the sets they are read back into; the
\* fields candidates and lastUpdated, which are never read, left out)
NoDoc ==
    [exists |-> FALSE, votedUsers |-> {}, registeredVoters |-> {}, isElectionOpen |-> FALSE]

ElectionState(voted, registered, open) ==
    [exists |-> TRUE, votedUsers |-> voted, registeredVoters |-> registered,
     isElectionOpen |-> open]

Init ==
    /\ chain = <<>>
    /\ pendingTransactions = <<>>
    /\ votedUsers = {}
    /\ registeredVoters = {}
    /\ isElectionOpen = FALSE
    /\ isLoaded = FALSE
    /\ mining = <<>>
    /\ now = 0
    /\ admitted = <<>>
    /\ returned = {}
    /\ last = NoCall
    /\ blocksCollection = {}
    /\ electionStateDoc = NoDoc
    /\ restarts = 0

(***************************************************************************)
(* loadChainAndElectionStateFromDatabase, run at startup before any route  *)
(* is served. `failure` is the store call that throws, if one does:        *)
(* getDocs of the blocks, setDoc of the genesis block (made only when the  *)
(* collection is empty) or getDoc of the election state; the catch block   *)
(* then installs the fallback state. `saved` tells whether the write of    *)
(* the initial election state, made when the document is missing, reaches  *)
(* the store.                                                              *)
(***************************************************************************)
LoadFailures == {"none", "getDocs", "setDoc", "getDoc"}

\* the orders loadedBlocksData.sort((a, b) => a.index - b.index) can leave
\* the documents in: by index, documents of equal index in either order
SortedByIndex(docs) ==
    {s \in [1..Cardinality(docs) -> docs] :
        \A i, j \in 1..Cardinality(docs) :
            i < j => (s[i] # s[j] /\ s[i].index <= s[j].index)}

\* the load whose catch block does not reset this.chain (line 144 left out)
loadChainKeptOnFailure(failure, saved) ==
    /\ ~isLoaded
    /\ failure = "setDoc" => blocksCollection = {}
    /\ IF failure = "none"
       THEN /\ IF blocksCollection = {}
               THEN /\ chain' = Append(chain, createGenesisBlock)
                    /\ blocksCollection' = {createGenesisBlock}
               ELSE /\ chain' \in SortedByIndex(blocksCollection)
                    /\ UNCHANGED blocksCollection
            /\ IF electionStateDoc.exists
               THEN /\ votedUsers' = electionStateDoc.votedUsers
                    /\ registeredVoters' = electionStateDoc.registeredVoters
                    /\ isElectionOpen' = electionStateDoc.isElectionOpen
                    /\ UNCHANGED electionStateDoc
               ELSE /\ UNCHANGED <<votedUsers, registeredVoters, isElectionOpen>>
                    /\ electionStateDoc' =
                          IF saved
                          THEN ElectionState(votedUsers, registeredVoters, isElectionOpen)
                          ELSE electionStateDoc
       ELSE /\ IF failure = "getDoc" /\ blocksCollection # {}
               THEN chain' \in SortedByIndex(blocksCollection)
               ELSE chain' = <<createGenesisBlock>>
            /\ votedUsers' = {}
            /\ registeredVoters' = {}
            /\ isElectionOpen' = FALSE
            /\ blocksCollection' =
                  IF failure = "getDoc" /\ blocksCollection = {}
                  THEN {createGenesisBlock} ELSE blocksCollection
            /\ UNCHANGED electionStateDoc
    /\ isLoaded' = TRUE
    /\ last' = Outcome("load", "", "", failure)
    /\ UNCHANGED <<pendingTransactions, mining, now, admitted, returned, restarts>>

loadChainAndElectionStateFromDatabase(failure, saved) ==
    /\ ~isLoaded
    /\ failure = "setDoc" => blocksCollection = {}
    /\ IF failure = "none"
       THEN /\ IF blocksCollection = {}
               THEN /\ chain' = Append(chain, createGenesisBlock)
                    /\ blocksCollection' = {createGenesisBlock}
               ELSE /\ chain' \in SortedByIndex(blocksCollection)
                    /\ UNCHANGED blocksCollection
            /\ IF electionStateDoc.exists
               THEN /\ votedUsers' = electionStateDoc.votedUsers
                    /\ registeredVoters' = electionStateDoc.registeredVoters
                    /\ isElectionOpen' = electionStateDoc.isElectionOpen
                    /\ UNCHANGED electionStateDoc
               ELSE /\ UNCHANGED <<votedUsers, registeredVoters, isElectionOpen>>
                    /\ electionStateDoc' =
                          IF saved
                          THEN ElectionState(votedUsers, registeredVoters, isElectionOpen)
                          ELSE electionStateDoc
       ELSE /\ chain' = <<createGenesisBlock>>
            /\ votedUsers' = {}
            /\ registeredVoters' = {}
            /\ isElectionOpen' = FALSE
            /\ blocksCollection' =
                  IF failure = "getDoc" /\ blocksCollection = {}
                  THEN {createGenesisBlock} ELSE blocksCollection
            /\ UNCHANGED electionStateDoc
    /\ isLoaded' = TRUE
    /\ last' = Outcome("load", "", "", failure)
    /\ UNCHANGED <<pendingTransactions, mining, now, admitted, returned, restarts>>

(***************************************************************************)
(* Admin operations.                                                       *)
(***************************************************************************)
registerVoterError(voterId) ==
    IF ~Truthy(voterId) THEN "InvalidInput"
    ELSE IF voterId \in registeredVoters THEN "AlreadyRegistered"
    ELSE "none"

\* registerVoter without the call of saveElectionStateToDatabase
registerVoterUnsaved(voterId, saved) ==
    /\ isLoaded
    /\ registeredVoters' =
          IF registerVoterError(voterId) = "none"
          THEN registeredVoters \cup {voterId} ELSE registeredVoters
    /\ last' = Outcome("registerVoter", voterId, "", registerVoterError(voterId))
    /\ UNCHANGED <<chain, pendingTransactions, votedUsers, isElectionOpen, isLoaded,
                   mining, now, admitted, returned, blocksCollection, restarts,
                   electionStateDoc>>

\* `saved`: the setDoc of saveElectionStateToDatabase reaches the store (when it
\* does not, the error is caught and logged there, lines 169-171)
registerVoter(voterId, saved) ==
    /\ isLoaded
    /\ registeredVoters' =
          IF registerVoterError(voterId) = "none"
          THEN registeredVoters \cup {voterId} ELSE registeredVoters
    /\ electionStateDoc' =
          IF registerVoterError(voterId) = "none" /\ saved
          THEN ElectionState(votedUsers, registeredVoters', isElectionOpen)
          ELSE electionStateDoc
    /\ last' = Outcome("registerVoter", voterId, "", registerVoterError(voterId))
    /\ UNCHANGED <<chain, pendingTransactions, votedUsers, isElectionOpen, isLoaded,
                   mining, now, admitted, returned, blocksCollection, restarts>>

\* setElectionStatus without the typeof check
setElectionStatusErrorUntyped(status) ==
    "none"

setElectionStatusError(status) ==
    IF status.typeof # "boolean" THEN "InvalidInput" ELSE "none"

setElectionStatus(status, saved) ==
    /\ isLoaded
    /\ isElectionOpen' =
          IF setElectionStatusError(status) = "none" THEN status.value ELSE isElectionOpen
    /\ electionStateDoc' =
          IF setElectionStatusError(status) = "none" /\ saved
          THEN ElectionState(votedUsers, registeredVoters, isElectionOpen')
          ELSE electionStateDoc
    /\ last' = Outcome("setElectionStatus", "", "", setElectionStatusError(status))
    /\ UNCHANGED <<chain, pendingTransactions, votedUsers, registeredVoters, isLoaded,
                   mining, now, admitted, returned, blocksCollection, restarts>>

(***************************************************************************)
(* Admission.                                                              *)
(***************************************************************************)
\* createVoteError with the election-status check made last
createVoteErrorClosedLast(voterId, candidateId) ==
    IF ~Truthy(voterId) \/ ~Truthy(candidateId) THEN "InvalidInput"
    ELSE IF ~(\E i \in DOMAIN candidates : candidates[i].id = candidateId)
         THEN "UnknownCandidate"
    ELSE IF voterId \notin registeredVoters THEN "VoterNotRegistered"
    ELSE IF voterId \in votedUsers THEN "DuplicateVote"
    ELSE IF ~isElectionOpen THEN "ElectionClosed"
    ELSE "none"

\* createVoteError with the registration check made before the candidate check
createVoteErrorRegistrationFirst(voterId, candidateId) ==
    IF ~isElectionOpen THEN "ElectionClosed"
    ELSE IF ~Truthy(voterId) \/ ~Truthy(candidateId) THEN "InvalidInput"
    ELSE IF voterId \notin registeredVoters THEN "VoterNotRegistered"
    ELSE IF ~(\E i \in DOMAIN candidates : candidates[i].id = candidateId)
         THEN "UnknownCandidate"
    ELSE IF voterId \in votedUsers THEN "DuplicateVote"
    ELSE "none"

\* createVoteError without the registration check
createVoteErrorUnregistered(voterId, candidateId) ==
    IF ~isElectionOpen THEN "ElectionClosed"
    ELSE IF ~Truthy(voterId) \/ ~Truthy(candidateId) THEN "InvalidInput"
    ELSE IF ~(\E i \in DOMAIN candidates : candidates[i].id = candidateId)
         THEN "UnknownCandidate"
    ELSE IF voterId \in votedUsers THEN "DuplicateVote"
    ELSE "none"

\* createVoteError without the test of isElectionOpen
createVoteErrorAlwaysOpen(voterId, candidateId) ==
    IF ~Truthy(voterId) \/ ~Truthy(candidateId) THEN "InvalidInput"
    ELSE IF ~(\E i \in DOMAIN candidates : candidates[i].id = candidateId)
         THEN "UnknownCandidate"
    ELSE IF voterId \notin registeredVoters THEN "VoterNotRegistered"
    ELSE IF voterId \in votedUsers THEN "DuplicateVote"
    ELSE "none"

\* createVoteError without the lookup of the candidate
createVoteErrorAnyCandidate(voterId, candidateId) ==
    IF ~isElectionOpen THEN "ElectionClosed"
    ELSE IF ~Truthy(voterId) \/ ~Truthy(candidateId) THEN "InvalidInput"
    ELSE IF voterId \notin registeredVoters THEN "VoterNotRegistered"
    ELSE IF voterId \in votedUsers THEN "DuplicateVote"
    ELSE "none"

createVoteError(voterId, candidateId) ==
    IF ~isElectionOpen THEN "ElectionClosed"
    ELSE IF ~Truthy(voterId) \/ ~Truthy(candidateId) THEN "InvalidInput"
    ELSE IF ~(\E i \in DOMAIN candidates : candidates[i].id = candidateId)
         THEN "UnknownCandidate"
    ELSE IF voterId \notin registeredVoters THEN "VoterNotRegistered"
    ELSE IF voterId \in votedUsers THEN "DuplicateVote"
    ELSE "none"

\* PendingAfterVote pushing before the checks have passed
PendingAfterVoteUnchecked(voterId, candidateId, t) ==
    Append(pendingTransactions, VoteTransaction(voterId, candidateId, t))

\* PendingAfterVote with unshift for push
PendingAfterVoteAtHead(voterId, candidateId, t) ==
    IF createVoteError(voterId, candidateId) = "none"
    THEN <<VoteTransaction(voterId, candidateId, t)>> \o pendingTransactions
    ELSE pendingTransactions

\* pendingTransactions after the body of createVote, given what Date.now() returns
PendingAfterVote(voterId, candidateId, t) ==
    IF createVoteError(voterId, candidateId) = "none"
    THEN Append(pendingTransactions, VoteTransaction(voterId, candidateId, t))
    ELSE pendingTransactions

\* createVote marking the voter in votedUsers at admission
createVoteMarking(voterId, candidateId) ==
    /\ isLoaded
    /\ IF createVoteError(voterId, candidateId) = "none"
       THEN \E t \in DateNow :
               /\ CanSpend(1 + t - now)
               /\ pendingTransactions' = PendingAfterVote(voterId, candidateId, t)
               /\ admitted' = Append(admitted, VoteTransaction(voterId, candidateId, t))
               /\ votedUsers' = votedUsers \cup {voterId}
               /\ now' = t
       ELSE /\ pendingTransactions' = PendingAfterVote(voterId, candidateId, now)
            /\ UNCHANGED <<admitted, now, votedUsers>>
    /\ last' = Outcome("createVote", voterId, candidateId,
                       createVoteError(voterId, candidateId))
    /\ UNCHANGED <<chain, registeredVoters, isElectionOpen, isLoaded, mining,
                   returned>>
    /\ UNCHANGED <<blocksCollection, electionStateDoc, restarts>>

createVote(voterId, candidateId) ==
    /\ isLoaded
    /\ IF createVoteError(voterId, candidateId) = "none"
       THEN \E t \in DateNow :
               /\ CanSpend(1 + t - now)
               /\ pendingTransactions' = PendingAfterVote(voterId, candidateId, t)
               /\ admitted' = Append(admitted, VoteTransaction(voterId, candidateId, t))
               /\ now' = t
       ELSE /\ pendingTransactions' = PendingAfterVote(voterId, candidateId, now)
            /\ UNCHANGED <<admitted, now>>
    /\ last' = Outcome("createVote", voterId, candidateId,
                       createVoteError(voterId, candidateId))
    /\ UNCHANGED <<chain, votedUsers, registeredVoters, isElectionOpen, isLoaded, mining,
                   returned>>
    /\ UNCHANGED <<blocksCollection, electionStateDoc, restarts>>

(***************************************************************************)
(* Sealing. minePendingTransactions runs in three parts: up to the await   *)
(* of the block's setDoc; from there to the await of the election state's  *)
(* setDoc; and the return.                                                 *)
(***************************************************************************)
\* NewBlock linked to the genesis block instead of the latest block
NewBlockOnGenesis(pending, t) ==
    mineBlock(Block(Len(chain), t, ArrayData(DeepCopy(pending)), chain[1].hash),
              difficulty)

\* NewBlock numbered with the index of the last position instead of the next
NewBlockIndexOfTail(pending, t) ==
    mineBlock(Block(Len(chain) - 1, t, ArrayData(DeepCopy(pending)), getLatestBlock.hash),
              difficulty)

\* NewBlock pushed without the call of mineBlock (line 209 left out)
NewBlockUnmined(pending, t) ==
    Block(Len(chain), t, ArrayData(DeepCopy(pending)), getLatestBlock.hash)

\* the block built and mined from the pool `pending` at time t
NewBlock(pending, t) ==
    mineBlock(Block(Len(chain), t, ArrayData(DeepCopy(pending)), getLatestBlock.hash),
              difficulty)

Suspended(newBlock, minerAddress) ==
    [newBlock |-> newBlock, minerAddress |-> minerAddress, pc |-> "saveBlock"]

Remove(seq, i) == SubSeq(seq, 1, i - 1) \o SubSeq(seq, i + 1, Len(seq))

\* VotersOf with the Array.isArray test inverted
VotersOfNonArray(block) ==
    IF ~IsArray(block.data)
    THEN {block.data.items[k].voterId :
             k \in {j \in DOMAIN block.data.items : IsVote(block.data.items[j])}}
    ELSE {}

\* the voterIds the forEach over newBlock.data adds to votedUsers
VotersOf(block) ==
    IF IsArray(block.data)
    THEN {block.data.items[k].voterId :
             k \in {j \in DOMAIN block.data.items : IsVote(block.data.items[j])}}
    ELSE {}

\* minePendingTransactions without the test for an empty pool
minePendingTransactionsAlways(minerAddress) ==
    /\ isLoaded
    /\ \E t \in DateNow :
          /\ CanSpend(1 + t - now)
          /\ chain' = Append(chain, NewBlock(pendingTransactions, t))
          /\ mining' = Append(mining,
                              Suspended(NewBlock(pendingTransactions, t), minerAddress))
          /\ now' = t
    /\ last' = Outcome("minePendingTransactions", "", "", "awaiting")
    /\ UNCHANGED <<pendingTransactions, votedUsers, registeredVoters, isElectionOpen,
                   isLoaded, admitted, returned>>
    /\ UNCHANGED <<blocksCollection, electionStateDoc, restarts>>

\* the part of minePendingTransactions before its first await, lines 196-216
minePendingTransactions(minerAddress) ==
    /\ isLoaded
    /\ IF Len(pendingTransactions) = 0
       THEN /\ last' = Outcome("minePendingTransactions", "", "", "NothingToMine")
            /\ UNCHANGED <<chain, mining, now>>
       ELSE /\ \E t \in DateNow :
                  /\ CanSpend(1 + t - now)
                  /\ chain' = Append(chain, NewBlock(pendingTransactions, t))
                  /\ mining' = Append(mining,
                                      Suspended(NewBlock(pendingTransactions, t), minerAddress))
                  /\ now' = t
            /\ last' = Outcome("minePendingTransactions", "", "", "awaiting")
    /\ UNCHANGED <<pendingTransactions, votedUsers, registeredVoters, isElectionOpen,
                   isLoaded, admitted, returned>>
    /\ UNCHANGED <<blocksCollection, electionStateDoc, restarts>>

\* mineBlockSaved without the forEach that adds the block's voters to votedUsers
mineBlockSavedVotersUnmarked(i, saved) ==
    /\ i \in DOMAIN mining
    /\ mining[i].pc = "saveBlock"
    /\ IF Truthy(mining[i].minerAddress)
       THEN \E t \in DateNow :
               /\ CanSpend(t - now)
               /\ pendingTransactions' = <<RewardTransaction(mining[i].minerAddress, t)>>
               /\ now' = t
       ELSE /\ pendingTransactions' = <<>>
            /\ now' = now
    /\ blocksCollection' = blocksCollection \cup {mining[i].newBlock}
    /\ electionStateDoc' =
          IF saved THEN ElectionState(votedUsers, registeredVoters, isElectionOpen)
          ELSE electionStateDoc
    /\ mining' = [mining EXCEPT ![i].pc = "saveState"]
    /\ last' = Outcome("minePendingTransactions", "", "", "awaiting")
    /\ UNCHANGED <<chain, votedUsers, registeredVoters, isElectionOpen, isLoaded, admitted,
                   returned, restarts>>

\* the block's setDoc resolved: lines 217 and 223-246, up to the await of
\* saveElectionStateToDatabase; `saved`: that write reaches the store
mineBlockSaved(i, saved) ==
    /\ i \in DOMAIN mining
    /\ mining[i].pc = "saveBlock"
    /\ IF Truthy(mining[i].minerAddress)
       THEN \E t \in DateNow :
               /\ CanSpend(t - now)
               /\ pendingTransactions' = <<RewardTransaction(mining[i].minerAddress, t)>>
               /\ now' = t
       ELSE /\ pendingTransactions' = <<>>
            /\ now' = now
    /\ votedUsers' = votedUsers \cup VotersOf(mining[i].newBlock)
    /\ blocksCollection' = blocksCollection \cup {mining[i].newBlock}
    /\ electionStateDoc' =
          IF saved THEN ElectionState(votedUsers', registeredVoters, isElectionOpen)
          ELSE electionStateDoc
    /\ mining' = [mining EXCEPT ![i].pc = "saveState"]
    /\ last' = Outcome("minePendingTransactions", "", "", "awaiting")
    /\ UNCHANGED <<chain, registeredVoters, isElectionOpen, isLoaded, admitted, returned,
                   restarts>>

\* mineBlockSaveFailed with the pool cleared and the reward issued on the way
\* out (lines 224-235 in a finally block)
mineBlockSaveFailedClearing(i) ==
    /\ i \in DOMAIN mining
    /\ mining[i].pc = "saveBlock"
    /\ pendingTransactions' =
          IF Truthy(mining[i].minerAddress)
          THEN <<RewardTransaction(mining[i].minerAddress, now)>>
          ELSE <<>>
    /\ mining' = Remove(mining, i)
    /\ last' = Outcome("minePendingTransactions", "", "", "BlockSaveFailed")
    /\ UNCHANGED <<chain, votedUsers, registeredVoters,
                   isElectionOpen, isLoaded, now, admitted, returned>>
    /\ UNCHANGED <<blocksCollection, electionStateDoc, restarts>>

\* mineBlockSaveFailed taking the unsaved block back out of the chain
mineBlockSaveFailedRollback(i) ==
    /\ i \in DOMAIN mining
    /\ mining[i].pc = "saveBlock"
    /\ chain' = SubSeq(chain, 1, Len(chain) - 1)
    /\ mining' = Remove(mining, i)
    /\ last' = Outcome("minePendingTransactions", "", "", "BlockSaveFailed")
    /\ UNCHANGED <<pendingTransactions, votedUsers, registeredVoters,
                   isElectionOpen, isLoaded, now, admitted, returned>>
    /\ UNCHANGED <<blocksCollection, electionStateDoc, restarts>>

\* the block's setDoc rejected: lines 218-221
mineBlockSaveFailed(i) ==
    /\ i \in DOMAIN mining
    /\ mining[i].pc = "saveBlock"
    /\ mining' = Remove(mining, i)
    /\ last' = Outcome("minePendingTransactions", "", "", "BlockSaveFailed")
    /\ UNCHANGED <<chain, pendingTransactions, votedUsers, registeredVoters,
                   isElectionOpen, isLoaded, now, admitted, returned>>
    /\ UNCHANGED <<blocksCollection, electionStateDoc, restarts>>

\* saveElectionStateToDatabase returned (it catches its own failure): line 248
mineReturn(i) ==
    /\ i \in DOMAIN mining
    /\ mining[i].pc = "saveState"
    /\ mining' = Remove(mining, i)
    /\ returned' = returned \cup {mining[i].newBlock.index + 1}
    /\ last' = Outcome("minePendingTransactions", "", "", "none")
    /\ UNCHANGED <<chain, pendingTransactions, votedUsers, registeredVoters,
                   isElectionOpen, isLoaded, now, admitted>>
    /\ UNCHANGED <<blocksCollection, electionStateDoc, restarts>>

(***************************************************************************)
(* POST /vote: createVote, then minePendingTransactions started and not    *)
(* awaited, in one uninterrupted run.                                      *)
(***************************************************************************)
PostVote(voterId, candidateId) ==
    /\ isLoaded
    /\ IF createVoteError(voterId, candidateId) # "none"
       THEN /\ last' = Outcome("createVote", voterId, candidateId,
                               createVoteError(voterId, candidateId))
            /\ UNCHANGED <<chain, pendingTransactions, mining, now, admitted>>
       ELSE /\ \E t1 \in DateNow : \E t2 \in {t1, t1 + 1} :
                  LET pending == PendingAfterVote(voterId, candidateId, t1)
                  IN  /\ CanSpend(2 + t2 - now)
                      /\ pendingTransactions' = pending
                      /\ admitted' = Append(admitted, VoteTransaction(voterId, candidateId, t1))
                      /\ chain' = Append(chain, NewBlock(pending, t2))
                      /\ mining' = Append(mining,
                                          Suspended(NewBlock(pending, t2), "election-authority-miner"))
                      /\ now' = t2
            /\ last' = Outcome("minePendingTransactions", "", "", "awaiting")
    /\ UNCHANGED <<votedUsers, registeredVoters, isElectionOpen, isLoaded, returned>>
    /\ UNCHANGED <<blocksCollection, electionStateDoc, restarts>>

(***************************************************************************)
(* Read-only operations.                                                   *)
(***************************************************************************)
\* isChainValidLoop without the comparison of the stored and the recomputed hash
isChainValidLoopNoHash(i) ==
    \A k \in (i + 1)..Len(chain) : chain[k].previousHash = chain[k - 1].hash

\* isChainValidLoop without the comparison of previousHash
isChainValidLoopNoLink(i) ==
    \A k \in (i + 1)..Len(chain) : chain[k].hash = calculateHash(chain[k])

\* the for loop of isChainValid from its (0-based) index i on: lines 360-372
RECURSIVE isChainValidLoop(_)
isChainValidLoop(i) ==
    IF ~(i < Len(chain)) THEN TRUE
    ELSE IF chain[i + 1].hash # calculateHash(chain[i + 1]) THEN FALSE
    ELSE IF chain[i + 1].previousHash # chain[i].hash THEN FALSE
    ELSE isChainValidLoop(i + 1)

isChainValid ==
    IF Len(chain) = 0 THEN FALSE
    ELSE isChainValidLoop(1)

\* TallyTransaction setting the count instead of incrementing it
TallyTransactionOnce(results, t) ==
    IF t.type = "vote" /\ t.candidateId \in DOMAIN results
    THEN [results EXCEPT ![t.candidateId].votes = 1]
    ELSE results

\* results after the scan has counted transaction t
TallyTransaction(results, t) ==
    IF t.type = "vote" /\ t.candidateId \in DOMAIN results
    THEN [results EXCEPT ![t.candidateId].votes = @ + 1]
    ELSE results

RECURSIVE TallyData(_, _, _)
TallyData(results, items, k) ==
    IF k > Len(items) THEN results
    ELSE TallyData(TallyTransaction(results, items[k]), items, k + 1)

RECURSIVE TallyChain(_, _)
TallyChain(results, i) ==
    IF i > Len(chain) THEN results
    ELSE TallyChain(IF IsArray(chain[i].data)
                    THEN TallyData(results, chain[i].data.items, 1)
                    ELSE results,
                    i + 1)

getElectionResults ==
    TallyChain([c \in CandidateIds |->
                   [name |-> candidates[CHOOSE i \in DOMAIN candidates : candidates[i].id = c].name, votes |-> 0]],
               1)

(***************************************************************************)
(* The specification.                                                      *)
(*                                                                         *)
(* In Spec the store calls of the load and every write of the election     *)
(* state succeed. What the ledger holds in memory does not depend on them: *)
(* saveElectionStateToDatabase catches its own errors, and over an empty   *)
(* store the load's fallback leaves the memory as a successful load does.  *)
(* SpecStore below takes every outcome of every store call.                *)
(***************************************************************************)
Next ==
    \/ loadChainAndElectionStateFromDatabase("none", TRUE)
    \/ \E v \in VoterInputs : registerVoter(v, TRUE)
    \/ \E s \in StatusInputs : setElectionStatus(s, TRUE)
    \/ \E v \in VoterInputs, c \in CandidateInputs : createVote(v, c)
    \/ \E v \in VoterInputs, c \in CandidateInputs : PostVote(v, c)
    \/ \E m \in MinerInputs : minePendingTransactions(m)
    \/ \E i \in DOMAIN mining : mineBlockSaved(i, TRUE)
    \/ \E i \in DOMAIN mining : mineBlockSaveFailed(i)
    \/ \E i \in DOMAIN mining : mineReturn(i)

Spec == Init /\ [][Next]_vars

(***************************************************************************)
(* SpecStore: the ledger together with its store. Every store call may     *)
(* fail, and the server may be stopped and started again (once no call is  *)
(* in flight), which leaves the store as it is and loads a new Blockchain  *)
(* from it. The requests are those of Spec for one voter and one           *)
(* candidate.                                                              *)
(***************************************************************************)
StoreVoterInputs == {"", "v1"}

\* the process ends and the entry point runs again: `new Blockchain()`
Restart ==
    /\ isLoaded
    /\ mining = <<>>
    /\ CanSpend(1)
    /\ chain' = <<>>
    /\ pendingTransactions' = <<>>
    /\ votedUsers' = {}
    /\ registeredVoters' = {}
    /\ isElectionOpen' = FALSE
    /\ isLoaded' = FALSE
    /\ returned' = {}
    /\ restarts' = restarts + 1
    /\ last' = Outcome("restart", "", "", "none")
    /\ UNCHANGED <<mining, now, admitted, blocksCollection, electionStateDoc>>

NextStore ==
    \/ \E f \in LoadFailures, saved \in BOOLEAN :
          loadChainAndElectionStateFromDatabase(f, saved)
    \/ \E v \in StoreVoterInputs, saved \in BOOLEAN : registerVoter(v, saved)
    \/ \E s \in StatusInputs, saved \in BOOLEAN : setElectionStatus(s, saved)
    \/ \E v \in StoreVoterInputs : PostVote(v, "candidateA")
    \/ \E m \in MinerInputs : minePendingTransactions(m)
    \/ \E i \in DOMAIN mining, saved \in BOOLEAN : mineBlockSaved(i, saved)
    \/ \E i \in DOMAIN mining : mineBlockSaveFailed(i)
    \/ \E i \in DOMAIN mining : mineReturn(i)
    \/ Restart

SpecStore == Init /\ [][NextStore]_vars

(***************************************************************************)
(* The server under fair scheduling: the requests of the HTTP routes (the  *)
(* core's createVote is reached through POST /vote only), and the          *)
(* continuations of the sealing calls. Node's event loop runs the          *)
(* continuation of every settled promise, and the store client settles     *)
(* every setDoc, by resolving or by rejecting it: an awaited block write    *)
(* does not stay pending forever, and neither does the await of            *)
(* saveElectionStateToDatabase. Nothing obliges a client to send a         *)
(* request, so no request is fair. One voter and one candidate are enough  *)
(* for a vote to be sealed alone, with a reward, or twice.                 *)
(***************************************************************************)
NextServer ==
    \/ loadChainAndElectionStateFromDatabase("none", TRUE)
    \/ \E v \in StoreVoterInputs : registerVoter(v, TRUE)
    \/ \E s \in StatusInputs : setElectionStatus(s, TRUE)
    \/ \E v \in StoreVoterInputs : PostVote(v, "candidateA")
    \/ \E m \in MinerInputs : minePendingTransactions(m)
    \/ \E i \in DOMAIN mining : mineBlockSaved(i, TRUE)
    \/ \E i \in DOMAIN mining : mineBlockSaveFailed(i)
    \/ \E i \in DOMAIN mining : mineReturn(i)

\* the awaited setDoc of a block settles
BlockSaveSettles ==
    \E i \in DOMAIN mining : mineBlockSaved(i, TRUE) \/ mineBlockSaveFailed(i)

\* the awaited saveElectionStateToDatabase returns
StateSaveSettles ==
    \E i \in DOMAIN mining : mineReturn(i)

SpecFair ==
    Init /\ [][NextServer]_vars /\ WF_vars(BlockSaveSettles) /\ WF_vars(StateSaveSettles)

(***************************************************************************)
(* A second specification, for isChainValid and getElectionResults as      *)
(* functions of the ledger they are called on. It starts from a ledger the *)
(* program has built: no block yet (before the load), the genesis block,   *)
(* or the genesis block and one or two sealed blocks. Its steps are calls  *)
(* of the two methods and alterations of a stored block made behind the    *)
(* program's back, with or without a new proof of work.                    *)
(***************************************************************************)
MaxAuditChain == 3

\* the pool the block at position n was sealed from
AuditPool(n) ==
    IF n = 2 THEN <<VoteTransaction("v1", "candidateA", 1)>>
    ELSE <<RewardTransaction("election-authority-miner", n - 2),
           VoteTransaction("v2", "candidateA", n - 1)>>

\* the block minePendingTransactions builds on the chain c: lines 202-209
SealedOn(c, pending, t) ==
    mineBlock(Block(Len(c), t, ArrayData(DeepCopy(pending)), c[Len(c)].hash), difficulty)

RECURSIVE AuditChain(_)
AuditChain(n) ==
    IF n = 0 THEN <<>>
    ELSE IF n = 1 THEN <<createGenesisBlock>>
    ELSE Append(AuditChain(n - 1), SealedOn(AuditChain(n - 1), AuditPool(n), n - 1))

AuditVotes(n) == [k \in 1..(IF n = 0 THEN 0 ELSE n - 1) |-> AuditPool(k + 1)[Len(AuditPool(k + 1))]]

InitAudit ==
    \E n \in 0..MaxAuditChain :
        /\ chain = AuditChain(n)
        /\ pendingTransactions =
              IF n < 2 THEN <<>> ELSE <<RewardTransaction("election-authority-miner", n - 1)>>
        /\ votedUsers = {AuditVotes(n)[k].voterId : k \in DOMAIN AuditVotes(n)}
        /\ registeredVoters = IF n = 0 THEN {} ELSE VoterInputs \ {""}
        /\ isElectionOpen = (n > 1)
        /\ isLoaded = (n > 0)
        /\ mining = <<>>
        /\ now = IF n = 0 THEN 0 ELSE n - 1
        /\ admitted = AuditVotes(n)
        /\ returned = 2..n
        /\ last = NoCall
        /\ blocksCollection = {AuditChain(n)[k] : k \in 1..n}
        /\ electionStateDoc =
              IF n = 0 THEN NoDoc
              ELSE ElectionState({AuditVotes(n)[k].voterId : k \in DOMAIN AuditVotes(n)},
                                 VoterInputs \ {""}, n > 1)
        /\ restarts = 0

\* what a stored payload may be replaced by
ForgedData ==
    { ArrayData(<<VoteTransaction("v1", "candidateB", 1)>>),
      StringData("Genesis Block (Election Start)") }

\* the data of block i is replaced; its nonce and hash stay
TamperData(i, data) ==
    /\ i \in DOMAIN chain
    /\ data # chain[i].data
    /\ chain' = [chain EXCEPT ![i].data = data]
    /\ last' = Outcome("tamper", "", "", "none")
    /\ UNCHANGED <<pendingTransactions, votedUsers, registeredVoters, isElectionOpen,
                   isLoaded, mining, now, admitted, returned>>
    /\ UNCHANGED <<blocksCollection, electionStateDoc, restarts>>

\* the data of block i is replaced and the block is mined again
TamperReseal(i, data) ==
    /\ i \in DOMAIN chain
    /\ data # chain[i].data
    /\ chain' = [chain EXCEPT ![i] =
                    mineBlock(Block(chain[i].index, chain[i].timestamp, data,
                                    chain[i].previousHash), difficulty)]
    /\ last' = Outcome("tamper", "", "", "none")
    /\ UNCHANGED <<pendingTransactions, votedUsers, registeredVoters, isElectionOpen,
                   isLoaded, mining, now, admitted, returned>>
    /\ UNCHANGED <<blocksCollection, electionStateDoc, restarts>>

\* isChainValid with `=` for `!==` in the hash test: the stored hash is overwritten
CallIsChainValidAssigning ==
    /\ chain' = [k \in DOMAIN chain |->
                    IF k >= 2 THEN [chain[k] EXCEPT !.hash = calculateHash(chain[k])]
                    ELSE chain[k]]
    /\ last' = [Outcome("isChainValid", "", "", "none") EXCEPT !.value.valid = isChainValid]
    /\ UNCHANGED <<pendingTransactions, votedUsers, registeredVoters, isElectionOpen,
                   isLoaded, mining, now, admitted, returned>>
    /\ UNCHANGED <<blocksCollection, electionStateDoc, restarts>>

\* a call of isChainValid()
CallIsChainValid ==
    /\ last' = [Outcome("isChainValid", "", "", "none") EXCEPT !.value.valid = isChainValid]
    /\ UNCHANGED <<chain, pendingTransactions, votedUsers, registeredVoters, isElectionOpen,
                   isLoaded, mining, now, admitted, returned>>
    /\ UNCHANGED <<blocksCollection, electionStateDoc, restarts>>

\* a call of getElectionResults()
CallGetElectionResults ==
    /\ last' = [Outcome("getElectionResults", "", "", "none")
                   EXCEPT !.value.results = getElectionResults]
    /\ UNCHANGED <<chain, pendingTransactions, votedUsers, registeredVoters, isElectionOpen,
                   isLoaded, mining, now, admitted, returned>>
    /\ UNCHANGED <<blocksCollection, electionStateDoc, restarts>>

\* a call of getCandidates(): it returns this.candidates
CallGetCandidates ==
    /\ last' = Outcome("getCandidates", "", "", "none")
    /\ UNCHANGED <<chain, pendingTransactions, votedUsers, registeredVoters, isElectionOpen,
                   isLoaded, mining, now, admitted, returned>>
    /\ UNCHANGED <<blocksCollection, electionStateDoc, restarts>>

NextAudit ==
    \/ CallIsChainValid
    \/ CallGetElectionResults
    \/ \E i \in DOMAIN chain, data \in ForgedData : TamperData(i, data)
    \/ \E i \in DOMAIN chain, data \in ForgedData : TamperReseal(i, data)

SpecAudit == InitAudit /\ [][NextAudit]_vars

(***************************************************************************)
(* A specification for mineBlock as a function of the block it is called   *)
(* on. It starts from one freshly constructed block, held as the block of  *)
(* a call that has not yet mined it, and its one step is the call of       *)
(* mineBlock with a difficulty of 0 to `difficulty`.                       *)
(***************************************************************************)
MaxFresh == 2

FreshData ==
    { StringData("Genesis Block (Election Start)"),
      ArrayData(<<>>),
      ArrayData(<<VoteTransaction("v1", "candidateA", 0)>>),
      ArrayData(<<VoteTransaction("v1", "candidateA", 0),
                  RewardTransaction("election-authority-miner", 1)>>) }

FreshBlocks ==
    { Block(index, timestamp, data, previousHash) :
         index \in 0..MaxFresh, timestamp \in 0..MaxFresh, data \in FreshData,
         previousHash \in {ZeroHash, createGenesisBlock.hash} }

InitMine ==
    /\ chain = <<>>
    /\ pendingTransactions = <<>>
    /\ votedUsers = {}
    /\ registeredVoters = {}
    /\ isElectionOpen = FALSE
    /\ isLoaded = FALSE
    /\ \E b \in FreshBlocks :
          mining = <<[newBlock |-> b, minerAddress |-> "", pc |-> "constructed"]>>
    /\ now = 0
    /\ admitted = <<>>
    /\ returned = {}
    /\ last = NoCall
    /\ blocksCollection = {}
    /\ electionStateDoc = NoDoc
    /\ restarts = 0

\* newBlock.mineBlock(d)
CallMineBlock(d) ==
    /\ mining[1].pc = "constructed"
    /\ mining' = <<[newBlock |-> mineBlock(mining[1].newBlock, d),
                    minerAddress |-> "", pc |-> "mined"]>>
    /\ last' = Outcome("mineBlock", "", "", "none")
    /\ UNCHANGED <<chain, pendingTransactions, votedUsers, registeredVoters, isElectionOpen,
                   isLoaded, now, admitted, returned>>
    /\ UNCHANGED <<blocksCollection, electionStateDoc, restarts>>

NextMine == \E d \in 0..difficulty : CallMineBlock(d)

SpecMine == InitMine /\ [][NextMine]_vars

(***************************************************************************)
(* The text calculateHash hands to SHA256. Above, the digest stands for    *)
(* the fields of the block it was computed from; here the input is the     *)
(* string the code builds, character by character: the expression          *)
(*   index + previousHash + timestamp + JSON.stringify(data) + nonce       *)
(* turns the two numbers into their decimal text and joins the five texts  *)
(* with nothing between them. A block of this section holds previousHash   *)
(* and timestamp as the strings they are in the code.                      *)
(***************************************************************************)
MaxTextNumber == 10
HexWidth == 2

Digit(d) ==
    CASE d = 0 -> "0" [] d = 1 -> "1" [] d = 2 -> "2" [] d = 3 -> "3" [] d = 4 -> "4"
      [] d = 5 -> "5" [] d = 6 -> "6" [] d = 7 -> "7" [] d = 8 -> "8" [] OTHER -> "9"

\* the text `+` gives a non-negative integer next to a string
RECURSIVE NumberToString(_)
NumberToString(n) ==
    IF n < 10 THEN Digit(n) ELSE NumberToString(n \div 10) \o Digit(n % 10)

Quote(s) == "\"" \o s \o "\""

\* JSON.stringify of one transaction; timestamps are Date.now().toString()
TransactionText(t) ==
    IF t.type = "vote"
    THEN "{" \o Quote("voterId") \o ":" \o Quote(t.voterId)
             \o "," \o Quote("candidateId") \o ":" \o Quote(t.candidateId)
             \o "," \o Quote("timestamp") \o ":" \o Quote(NumberToString(t.timestamp))
             \o "," \o Quote("type") \o ":" \o Quote(t.type) \o "}"
    ELSE "{" \o Quote("fromAddress") \o ":" \o t.fromAddress
             \o "," \o Quote("toAddress") \o ":" \o Quote(t.toAddress)
             \o "," \o Quote("amount") \o ":" \o NumberToString(t.amount)
             \o "," \o Quote("timestamp") \o ":" \o Quote(NumberToString(t.timestamp))
             \o "," \o Quote("type") \o ":" \o Quote(t.type) \o "}"

RECURSIVE TransactionsText(_, _)
TransactionsText(items, i) ==
    IF i > Len(items) THEN ""
    ELSE (IF i = 1 THEN "" ELSE ",") \o TransactionText(items[i])
            \o TransactionsText(items, i + 1)

\* JSON.stringify(this.data), as text
JSONText(data) ==
    IF IsArray(data) THEN "[" \o TransactionsText(data.items, 1) \o "]"
    ELSE Quote(data.str)

\* the argument of SHA256 in calculateHash
calculateHashInput(b) ==
    NumberToString(b.index) \o b.previousHash \o b.timestamp
        \o JSONText(b.data) \o NumberToString(b.nonce)

\* the texts of digests: every string of HexWidth characters over HexChars
HexChars == {"0", "1", "a"}

RECURSIVE Words(_)
Words(n) == IF n = 0 THEN {""} ELSE {w \o c : w \in Words(n - 1), c \in HexChars}

DigestTexts == Words(HexWidth)

\* previousHash: the constructor's default '', the genesis block's "0", a digest
PreviousHashTexts == {"", "0"} \cup DigestTexts

\* timestamp: the genesis block's date, or Date.now().toString()
TimestampTexts == {"2023-01-01"} \cup {NumberToString(t) : t \in 0..MaxTextNumber}

TextData ==
    { StringData("Genesis Block (Election Start)"),
      ArrayData(<<VoteTransaction("v1", "candidateA", 0)>>) }

\* the fields of a block, before its hash is computed (hash = null)
TextBlock(index, timestamp, data, previousHash, nonce) ==
    [index |-> index, timestamp |-> timestamp, data |-> data,
     previousHash |-> previousHash, nonce |-> nonce, hash |-> [lit |-> "null", pre |-> ""]]

TextBlocks ==
    { TextBlock(index, timestamp, data, previousHash, nonce) :
         index \in 0..MaxTextNumber, timestamp \in TimestampTexts, data \in TextData,
         previousHash \in PreviousHashTexts, nonce \in 0..1 }

InitText ==
    /\ chain = <<>>
    /\ pendingTransactions = <<>>
    /\ votedUsers = {}
    /\ registeredVoters = {}
    /\ isElectionOpen = FALSE
    /\ isLoaded = FALSE
    /\ \E b \in TextBlocks :
          mining = <<[newBlock |-> b, minerAddress |-> "", pc |-> "constructing"]>>
    /\ now = 0
    /\ admitted = <<>>
    /\ returned = {}
    /\ last = NoCall
    /\ blocksCollection = {}
    /\ electionStateDoc = NoDoc
    /\ restarts = 0

\* this.hash = this.calculateHash()
CallCalculateHash ==
    /\ mining[1].pc = "constructing"
    /\ mining' = <<[newBlock |-> [mining[1].newBlock EXCEPT
                                    !.hash = SHA256(calculateHashInput(mining[1].newBlock))],
                    minerAddress |-> "", pc |-> "constructed"]>>
    /\ last' = Outcome("calculateHash", "", "", "none")
    /\ UNCHANGED <<chain, pendingTransactions, votedUsers, registeredVoters, isElectionOpen,
                   isLoaded, now, admitted, returned>>
    /\ UNCHANGED <<blocksCollection, electionStateDoc, restarts>>

NextText == CallCalculateHash

SpecText == InitText /\ [][NextText]_vars

(***************************************************************************)
(* The core called directly: every public method of the Blockchain class,  *)
(* the three read-only ones included, by a caller that has awaited the     *)
(* load. One voter and two candidate inputs keep the read calls, which     *)
(* record what they returned, from multiplying the states.                 *)
(***************************************************************************)
NextCore ==
    \/ loadChainAndElectionStateFromDatabase("none", TRUE)
    \/ \E v \in StoreVoterInputs : registerVoter(v, TRUE)
    \/ \E s \in StatusInputs : setElectionStatus(s, TRUE)
    \/ \E v \in StoreVoterInputs, c \in {"", "candidateA"} : createVote(v, c)
    \/ \E m \in MinerInputs : minePendingTransactions(m)
    \/ \E i \in DOMAIN mining : mineBlockSaved(i, TRUE)
    \/ \E i \in DOMAIN mining : mineBlockSaveFailed(i)
    \/ \E i \in DOMAIN mining : mineReturn(i)
    \/ isLoaded /\ CallGetCandidates
    \/ isLoaded /\ CallGetElectionResults
    \/ isLoaded /\ CallIsChainValid

SpecCore == Init /\ [][NextCore]_vars

(***************************************************************************)
(* Definitions the properties share.                                       *)
(***************************************************************************)
Voters == VoterInputs \ {""}

\* the transactions of the blocks chain[i], chain[i+1], ..., in chain order
RECURSIVE SealedFrom(_)
SealedFrom(i) ==
    IF i > Len(chain) THEN <<>>
    ELSE (IF IsArray(chain[i].data) THEN chain[i].data.items ELSE <<>>) \o SealedFrom(i + 1)

SealedTransactions == SealedFrom(1)

IsVoteBy(t, v) == t.type = "vote" /\ t.voterId = v

SealedVotesBy(v) == Len(SelectSeq(SealedTransactions, LAMBDA t : IsVoteBy(t, v)))

SealedVotes == Len(SelectSeq(SealedTransactions, LAMBDA t : t.type = "vote"))

\* a sealing whose block holds a vote by v has returned to its caller
SealedAndReturned(v) ==
    \E i \in returned : \E k \in DOMAIN chain[i].data.items : IsVoteBy(chain[i].data.items[k], v)

(***************************************************************************)
(* C1. One vote per voter: the blocks of the chain together hold at most   *)
(* one Vote transaction for any voterId. The code admits a second vote of  *)
(* a voter whose first vote is not sealed and persisted yet, and seals     *)
(* both.                                                                   *)
(***************************************************************************)
C1_OneVotePerVoter == \A v \in Voters : SealedVotesBy(v) <= 1

(***************************************************************************)
(* C2. Among the Vote transactions createVote has accepted, no two carry   *)
(* the same voterId. The code checks votedUsers only, which a pending vote *)
(* is not in.                                                              *)
(***************************************************************************)
C2_NoDoubleAdmission ==
    \A i, j \in DOMAIN admitted : i # j => admitted[i].voterId # admitted[j].voterId

(***************************************************************************)
(* C3. At most one minePendingTransactions call that has started is yet to *)
(* return or throw. The code starts a sealing per accepted vote and per    *)
(* POST /mine, whatever is in flight.                                      *)
(***************************************************************************)
C3_OneSealingInFlight == Len(mining) <= 1

(***************************************************************************)
(* Every action records its call in `last`, so a step that leaves          *)
(* last.op = "createVote" is a createVote call (alone, or thrown inside    *)
(* POST /vote), with last.voterId and last.candidateId its arguments; a    *)
(* step that lengthens `admitted` is a createVote that succeeded, alone or *)
(* inside POST /vote.                                                      *)
(***************************************************************************)
Admits == Len(admitted') > Len(admitted)

AdmittedVoter == admitted'[Len(admitted')].voterId

AdmittedCandidate == admitted'[Len(admitted')].candidateId

(***************************************************************************)
(* C4, as claimed. Once a vote of voter v is in a block whose sealing has  *)
(* returned, every later createVote for v fails with the duplicate-vote    *)
(* error and adds nothing to the pool. Not so: an earlier check of         *)
(* createVote may fail first (the election was closed meanwhile, or the    *)
(* candidateId is empty or unknown).                                       *)
(***************************************************************************)
C4_AlwaysDuplicateVote ==
    [][/\ (last'.op = "createVote" /\ last'.voterId \in Voters
              /\ SealedAndReturned(last'.voterId))
          => /\ last'.error = "DuplicateVote"
             /\ pendingTransactions' = pendingTransactions
       /\ Admits => ~SealedAndReturned(AdmittedVoter)]_vars

(***************************************************************************)
(* C4, amended. Once a vote of voter v is in a block whose sealing has     *)
(* returned, every later createVote for v fails and adds nothing to the    *)
(* pool; the error is the duplicate-vote error whenever the election is    *)
(* open and the candidateId is a known candidate.                          *)
(***************************************************************************)
C4_RejectedAfterSealing ==
    [][/\ (last'.op = "createVote" /\ last'.voterId \in Voters
              /\ SealedAndReturned(last'.voterId))
          => /\ last'.error # "none"
             /\ (isElectionOpen /\ last'.candidateId \in CandidateIds
                    => last'.error = "DuplicateVote")
             /\ pendingTransactions' = pendingTransactions
       /\ Admits => ~SealedAndReturned(AdmittedVoter)]_vars

C4_Witness ==
    /\ last.op = "createVote"
    /\ last.error = "DuplicateVote"
    /\ last.voterId \in Voters
    /\ SealedAndReturned(last.voterId)

(***************************************************************************)
(* C5. While isElectionOpen is false, createVote fails with the            *)
(* election-closed error for every voterId and candidateId, and no vote is *)
(* admitted.                                                               *)
(***************************************************************************)
C5_ClosedElectionRejects ==
    [][~isElectionOpen =>
          /\ last'.op = "createVote" =>
                /\ last'.error = "ElectionClosed"
                /\ pendingTransactions' = pendingTransactions
          /\ ~Admits]_vars

\* a closed election turned away a vote that was valid in every other respect
C5_Witness ==
    /\ ~isElectionOpen
    /\ last.op = "createVote"
    /\ last.error = "ElectionClosed"
    /\ last.voterId \in registeredVoters \ votedUsers
    /\ last.candidateId \in CandidateIds

(***************************************************************************)
(* C6. createVote reports the first failing check in the order: election   *)
(* closed, empty voterId or candidateId, unknown candidate, voter not      *)
(* registered, voter already voted; it succeeds exactly when none fails.   *)
(***************************************************************************)
CheckOrder ==
    <<"ElectionClosed", "InvalidInput", "UnknownCandidate", "VoterNotRegistered",
      "DuplicateVote">>

CheckFails(k, v, c) ==
    CASE k = 1 -> ~isElectionOpen
      [] k = 2 -> v = "" \/ c = ""
      [] k = 3 -> c \notin {"candidateA", "candidateB", "candidateC"}
      [] k = 4 -> v \notin registeredVoters
      [] k = 5 -> v \in votedUsers

FirstFailingCheck(v, c) ==
    LET failing == {k \in DOMAIN CheckOrder : CheckFails(k, v, c)}
    IN  IF failing = {} THEN "none"
        ELSE CheckOrder[CHOOSE k \in failing : \A j \in failing : k <= j]

C6_FirstFailingCheckWins ==
    [][/\ last'.op = "createVote" =>
             /\ last'.error = FirstFailingCheck(last'.voterId, last'.candidateId)
             /\ Admits <=> last'.error = "none"
       /\ Admits => FirstFailingCheck(AdmittedVoter, AdmittedCandidate) = "none"]_vars

\* three checks failed at once (empty voterId, unknown candidate, voter not
\* registered) and the earliest was reported
C6_Witness ==
    /\ isElectionOpen
    /\ last = Outcome("createVote", "", "candidateX", "InvalidInput")

(***************************************************************************)
(* C7. A createVote call that fails leaves the pool, the chain,            *)
(* registeredVoters, votedUsers and isElectionOpen as they were.           *)
(***************************************************************************)
C7_FailedVoteChangesNothing ==
    [][(last'.op = "createVote" /\ last'.error # "none")
          => UNCHANGED <<pendingTransactions, chain, registeredVoters, votedUsers,
                         isElectionOpen>>]_vars

\* an unregistered voter was turned away while the pool held a transaction
C7_Witness ==
    /\ last.op = "createVote"
    /\ last.error = "VoterNotRegistered"
    /\ Len(pendingTransactions) > 0

(***************************************************************************)
(* C8. A successful createVote appends exactly one Vote transaction, with  *)
(* the given voterId and candidateId, at the tail of the pool and changes  *)
(* nothing else; the voter is not in votedUsers after it.                  *)
(***************************************************************************)
C8_VoteAppendsOnly ==
    [][(last'.op = "createVote" /\ last'.error = "none")
          => /\ \E t \in DateNow :
                   pendingTransactions' =
                      Append(pendingTransactions,
                             VoteTransaction(last'.voterId, last'.candidateId, t))
             /\ UNCHANGED <<chain, votedUsers, registeredVoters, isElectionOpen>>
             /\ last'.voterId \notin votedUsers']_vars

\* a vote was appended behind a transaction already in the pool
C8_Witness ==
    /\ last.op = "createVote"
    /\ last.error = "none"
    /\ Len(pendingTransactions) >= 2
    /\ IsVoteBy(pendingTransactions[Len(pendingTransactions)], last.voterId)
    /\ last.voterId \notin votedUsers

(***************************************************************************)
(* C9. The votes getElectionResults reports, summed over the candidates,   *)
(* are as many as the Vote transactions in the blocks of the chain.        *)
(***************************************************************************)
RECURSIVE SumVotes(_, _)
SumVotes(results, i) ==
    IF i > Len(candidates) THEN 0
    ELSE results[candidates[i].id].votes + SumVotes(results, i + 1)

C9_TallyCountsSealedVotes == SumVotes(getElectionResults, 1) = SealedVotes

C9_Witness == SealedVotes >= 2 /\ SumVotes(getElectionResults, 1) = SealedVotes

C12_AppendOnly ==
    [][isLoaded =>
          /\ Len(chain') \in {Len(chain), Len(chain) + 1}
          /\ SubSeq(chain', 1, Len(chain)) = chain
          /\ \A i \in DOMAIN mining :
                chain'[mining[i].newBlock.index + 1] = mining[i].newBlock]_vars

\* a vote was admitted to the pool after the snapshot of a block whose
\* sealing is still suspended, and the block holds the snapshot
C12_Witness ==
    /\ last.op = "createVote"
    /\ last.error = "none"
    /\ \E i \in DOMAIN mining :
          /\ mining[i].pc = "saveBlock"
          /\ Len(pendingTransactions) > Len(mining[i].newBlock.data.items)
          /\ chain[mining[i].newBlock.index + 1] = mining[i].newBlock

(***************************************************************************)
(* C13. Every block of the chain, the genesis block included, has a hash   *)
(* with at least `difficulty` leading zero characters that equals the hash *)
(* recomputed from its fields. The code never mines the genesis block:     *)
(* createGenesisBlock returns it with nonce 0 and the hash its constructor *)
(* computed (cde05f0d... for the real digest), which has no such prefix.   *)
(***************************************************************************)
C13_EveryBlockSealed ==
    \A i \in DOMAIN chain :
        /\ MeetsDifficulty(chain[i].hash, difficulty)
        /\ chain[i].hash = calculateHash(chain[i])

(***************************************************************************)
(* C14. isChainValid returns true exactly when the chain is not empty and  *)
(* every block after the genesis block has a stored hash equal to its      *)
(* recomputed hash and a previousHash equal to the stored hash of the      *)
(* block before it; false for the empty chain, true for the genesis block  *)
(* alone. Checked on the ledgers of SpecAudit, altered blocks included.    *)
(***************************************************************************)
LinkedAndHashed ==
    /\ Len(chain) > 0
    /\ \A i \in 2..Len(chain) :
          /\ chain[i].hash = calculateHash(chain[i])
          /\ chain[i].previousHash = chain[i - 1].hash

C14_ValidIffLinkedAndHashed ==
    /\ isChainValid <=> LinkedAndHashed
    /\ last.op = "isChainValid" => (last.value.valid <=> LinkedAndHashed)
    /\ Len(chain) = 0 => ~isChainValid
    /\ Len(chain) = 1 => isChainValid

\* a call returned false for a chain whose blocks all carry their own hash
\* and whose only fault is a broken link
C14_Witness ==
    /\ last.op = "isChainValid"
    /\ ~last.value.valid
    /\ \A i \in DOMAIN chain : chain[i].hash = calculateHash(chain[i])
    /\ \E i \in 2..Len(chain) : chain[i].previousHash # chain[i - 1].hash

(***************************************************************************)
(* C15. Replacing the stored payload of a mined block (a block after the   *)
(* genesis block whose hash is the hash of its fields), with its nonce and *)
(* hash left as they are, makes isChainValid() false. The digest is        *)
(* collision-free here, as the claim assumes.                              *)
(***************************************************************************)
C15_PayloadTamperDetected ==
    [][\A i \in 2..Len(chain) :
          (/\ Len(chain') = Len(chain)
           /\ chain[i].hash = calculateHash(chain[i])
           /\ chain'[i].data # chain[i].data
           /\ chain'[i] = [chain[i] EXCEPT !.data = chain'[i].data])
          => ~isChainValid']_vars

\* a call returned false for a chain that was valid until the payload of
\* its last block was replaced
C15_Witness ==
    /\ last.op = "isChainValid"
    /\ ~last.value.valid
    /\ Len(chain) >= 2
    /\ chain[Len(chain)].data # AuditChain(Len(chain))[Len(chain)].data
    /\ chain = [AuditChain(Len(chain)) EXCEPT ![Len(chain)].data = chain[Len(chain)].data]

(***************************************************************************)
(* C16. isChainValid and getElectionResults are read-only: a call of       *)
(* either leaves the chain, the pool, registeredVoters, votedUsers and     *)
(* isElectionOpen as they were, and a second call right after the first    *)
(* returns what the first returned.                                        *)
(***************************************************************************)
C16_ReadOnly ==
    [][last'.op \in {"isChainValid", "getElectionResults"} =>
          /\ UNCHANGED <<chain, pendingTransactions, registeredVoters, votedUsers,
                         isElectionOpen>>
          /\ last.op = last'.op => last'.value = last.value]_vars

\* getElectionResults counted votes on a chain that isChainValid would reject
C16_Witness ==
    /\ last.op = "getElectionResults"
    /\ last.value.results["candidateA"].votes >= 1
    /\ last.value.results["candidateB"].votes >= 1
    /\ ~isChainValid

(***************************************************************************)
(* C17. minePendingTransactions called on an empty pool does nothing: it   *)
(* returns the nothing-to-mine result, appends no block, pushes no reward, *)
(* starts no write to the store and leaves votedUsers alone, with or       *)
(* without a minerAddress. A sealing starts from an empty pool only inside *)
(* POST /vote, after the vote it admitted has made the pool non-empty.     *)
(***************************************************************************)
C17_EmptyPoolNoOp ==
    [][/\ (last'.op = "minePendingTransactions" /\ last'.error = "NothingToMine")
          => /\ Len(pendingTransactions) = 0
             /\ UNCHANGED <<chain, pendingTransactions, votedUsers, registeredVoters,
                            isElectionOpen, mining>>
       /\ (isLoaded /\ Len(pendingTransactions) = 0 /\ ~Admits)
          => /\ chain' = chain
             /\ Len(mining') <= Len(mining)]_vars

\* a call on an empty pool returned while votes are sealed in the chain
C17_Witness ==
    /\ last.op = "minePendingTransactions"
    /\ last.error = "NothingToMine"
    /\ Len(pendingTransactions) = 0
    /\ Len(chain) >= 2
    /\ votedUsers # {}

(***************************************************************************)
(* C18. When a minePendingTransactions call returns its success result,    *)
(* the voterId of every Vote transaction of the block it appended is in    *)
(* votedUsers and getElectionResults counts each of those votes for its    *)
(* candidate. From a fresh ledger, registering v1, opening the election,   *)
(* one vote of v1 for candidateA and one sealing give votedUsers = {v1}    *)
(* and one vote for candidateA.                                            *)
(***************************************************************************)
\* the number of Vote transactions for candidate c among items
VotesFor(items, c) ==
    Cardinality({k \in DOMAIN items : items[k].type = "vote" /\ items[k].candidateId = c})

\* the position of the block whose sealing call returns in this step
Returns(i) == i \in returned' \ returned

\* one vote, of v1 for candidateA, was admitted and one sealing has returned
OneVoteSealed ==
    /\ Len(admitted) = 1
    /\ admitted[1].voterId = "v1"
    /\ admitted[1].candidateId = "candidateA"
    /\ Len(chain) = 2
    /\ returned = {2}

C18_SealedVotesCount ==
    [][/\ \A i \in DOMAIN chain' :
             Returns(i) =>
                /\ \A k \in DOMAIN chain'[i].data.items :
                      chain'[i].data.items[k].type = "vote"
                         => chain'[i].data.items[k].voterId \in votedUsers'
                /\ \A c \in CandidateIds :
                      getElectionResults'[c].votes >= VotesFor(chain'[i].data.items, c)
       /\ OneVoteSealed' =>
             /\ votedUsers' = {"v1"}
             /\ getElectionResults'["candidateA"].votes = 1]_vars

\* the scenario's final state
C18_Witness ==
    /\ OneVoteSealed
    /\ last.op = "minePendingTransactions"
    /\ last.error = "none"
    /\ registeredVoters = {"v1"}
    /\ votedUsers = {"v1"}

(***************************************************************************)
(* C19. votedUsers is the set of the voterIds of the Vote transactions in  *)
(* the blocks of the chain, i.e. what a replay of the chain rebuilds. The  *)
(* code pushes a block onto the chain before the block's setDoc and adds   *)
(* its voters only after that setDoc has resolved: the two differ while    *)
(* the sealing is suspended, and for good when the setDoc is rejected.     *)
(***************************************************************************)
ReplayedVoters ==
    {SealedTransactions[k].voterId :
        k \in {j \in DOMAIN SealedTransactions : IsVote(SealedTransactions[j])}}

C19_VotedUsersIsReplay == votedUsers = ReplayedVoters

\* the difference outlives the sealing: no call is in flight, a vote is in
\* the chain and its voter is not in votedUsers
C19_LastingDifference ==
    /\ Len(mining) = 0
    /\ ReplayedVoters \ votedUsers # {}

(***************************************************************************)
(* C20. From a fresh ledger on, every voter in votedUsers is a registered  *)
(* voter.                                                                  *)
(***************************************************************************)
C20_VotedAreRegistered == votedUsers \subseteq registeredVoters

\* one registered voter has voted and another has not
C20_Witness ==
    /\ votedUsers # {}
    /\ registeredVoters \ votedUsers # {}
    /\ votedUsers \subseteq registeredVoters

(***************************************************************************)
(* C21. registerVoter has three outcomes. An empty voterId fails and       *)
(* changes nothing. A voterId already registered is reported as such and   *)
(* changes nothing, in memory or in the store. Any other voterId is added  *)
(* to registeredVoters and the election state, with the new voter in it,   *)
(* is written to the store: the document is that state when the store      *)
(* takes the write and stays as it was when it does not (the operation     *)
(* succeeds either way). Whether the voter was registered before or not,   *)
(* registeredVoters afterwards is the set with the voter added once.       *)
(***************************************************************************)
C21_RegisterVoterOutcomes ==
    [][/\ last'.op = "registerVoter" =>
             /\ last'.error = "InvalidInput" <=> last'.voterId = ""
             /\ last'.error = "AlreadyRegistered" <=>
                   (last'.voterId # "" /\ last'.voterId \in registeredVoters)
             /\ last'.error # "none" =>
                   UNCHANGED <<registeredVoters, electionStateDoc>>
             /\ last'.error = "none" =>
                   \/ electionStateDoc' =
                         ElectionState(votedUsers, registeredVoters', isElectionOpen)
                   \/ electionStateDoc' = electionStateDoc
             /\ registeredVoters' = registeredVoters \cup ({last'.voterId} \ {""})
             /\ UNCHANGED <<chain, pendingTransactions, votedUsers, isElectionOpen,
                            blocksCollection>>
       /\ \A v \in StoreVoterInputs \ {""} :
             (v \notin registeredVoters /\ registerVoter(v, TRUE)) =>
                electionStateDoc' =
                   ElectionState(votedUsers, registeredVoters \cup {v}, isElectionOpen)]_vars

\* a second registration of v1 was turned away; the stored document, written
\* by the first, lists v1
C21_Witness ==
    /\ last.op = "registerVoter"
    /\ last.error = "AlreadyRegistered"
    /\ registeredVoters = {"v1"}
    /\ electionStateDoc.exists
    /\ electionStateDoc.registeredVoters = {"v1"}

(***************************************************************************)
(* C22. setElectionStatus with a non-boolean argument fails and leaves     *)
(* isElectionOpen and the stored election state as they were; with a       *)
(* boolean argument it succeeds, sets isElectionOpen to that value and     *)
(* writes the election state, with the new value in it, to the store (the  *)
(* document is that state when the store takes the write).                 *)
(***************************************************************************)
C22_SetElectionStatus ==
    [][\A status \in StatusInputs, saved \in BOOLEAN :
          setElectionStatus(status, saved) =>
             /\ last'.op = "setElectionStatus"
             /\ IF status.typeof # "boolean"
                THEN /\ last'.error = "InvalidInput"
                     /\ UNCHANGED <<isElectionOpen, electionStateDoc>>
                ELSE /\ last'.error = "none"
                     /\ isElectionOpen' = status.value
                     /\ electionStateDoc' =
                           IF saved
                           THEN ElectionState(votedUsers, registeredVoters, status.value)
                           ELSE electionStateDoc
             /\ UNCHANGED <<chain, pendingTransactions, votedUsers, registeredVoters,
                            blocksCollection>>]_vars

\* the election was opened and the stored document says so
C22_Witness ==
    /\ last.op = "setElectionStatus"
    /\ last.error = "none"
    /\ isElectionOpen
    /\ electionStateDoc.exists
    /\ electionStateDoc.isElectionOpen

\* the calls of minePendingTransactions awaiting saveElectionStateToDatabase
AwaitingStateSave(calls) ==
    Cardinality({i \in DOMAIN calls : calls[i].pc = "saveState"})

(***************************************************************************)
(* C23. When the setDoc of the new block is rejected, minePendingTransa-   *)
(* ctions ends with the error 'Failed to save block to database.': the     *)
(* pool is not cleared, no reward is issued, votedUsers is not updated and *)
(* neither store collection is written. When the block was saved and the   *)
(* write of the election state is rejected, the call carries on as if it   *)
(* had been taken: pool cleared, reward issued, votedUsers updated, the    *)
(* stored document left as it was, and the call returns without an error.  *)
(***************************************************************************)
C23_SaveFailures ==
    [][/\ last'.error = "BlockSaveFailed" =>
             /\ last'.op = "minePendingTransactions"
             /\ Len(mining') = Len(mining) - 1
             /\ UNCHANGED <<pendingTransactions, votedUsers, blocksCollection,
                            electionStateDoc>>
       /\ \A i \in DOMAIN mining :
             /\ mineBlockSaved(i, FALSE) =>
                   /\ mining'[i].pc = "saveState"
                   /\ votedUsers' = votedUsers \cup VotersOf(mining[i].newBlock)
                   /\ pendingTransactions' \in
                         {<<>>} \cup {<<RewardTransaction(mining[i].minerAddress, t)>> :
                                         t \in DateNow}
                   /\ Len(pendingTransactions') = 1 <=> Truthy(mining[i].minerAddress)
                   /\ electionStateDoc' = electionStateDoc
             /\ mineReturn(i) =>
                   (last'.op = "minePendingTransactions" /\ last'.error = "none")
       /\ AwaitingStateSave(mining') < AwaitingStateSave(mining) =>
             (last'.op = "minePendingTransactions" /\ last'.error = "none")]_vars

\* v1's block was sealed and saved but the election state after it was not;
\* the next sealing, of the reward, then failed to save its block: the reward
\* is still in the pool and the stored state still lists no voter
C23_Witness ==
    /\ last.error = "BlockSaveFailed"
    /\ Len(chain) = 3
    /\ Len(pendingTransactions) = 1
    /\ votedUsers = {"v1"}
    /\ Cardinality(blocksCollection) = 2
    /\ electionStateDoc.votedUsers = {}
    /\ 2 \in returned

\* the state the catch block of the load leaves, lines 144-148
Fallback ==
    /\ isLoaded
    /\ chain = <<createGenesisBlock>>
    /\ chain[1].index = 0
    /\ chain[1].previousHash = ZeroHash
    /\ registeredVoters = {}
    /\ votedUsers = {}
    /\ ~isElectionOpen

\* C24 as stated: whichever store call of the load fails, the write of the
\* first election state included, the load ends in the fallback state
C24_AnyFailureFallsBack ==
    [][\A f \in LoadFailures, saved \in BOOLEAN :
          ( /\ loadChainAndElectionStateFromDatabase(f, saved)
            /\ f # "none" \/ (~electionStateDoc.exists /\ ~saved) ) => Fallback']_vars

(***************************************************************************)
(* C24. Every load ends with isLoaded = true. When getDocs, the setDoc of  *)
(* the genesis block or getDoc fails, memory is the fallback state: a      *)
(* chain of exactly the genesis block, no registered voter, no voted user, *)
(* election closed, whatever the store holds and whatever had been loaded. *)
(* When only the write of the first election state fails, the load keeps   *)
(* the chain it read from the store and leaves the store without a         *)
(* document.                                                               *)
(***************************************************************************)
C24_LoadFailureFallsBack ==
    [][/\ last'.op = "load" =>
             /\ isLoaded'
             /\ last'.error # "none" => Fallback'
       /\ ( /\ ~electionStateDoc.exists
            /\ loadChainAndElectionStateFromDatabase("none", FALSE) ) =>
             /\ isLoaded'
             /\ IF blocksCollection = {}
                THEN chain' = <<createGenesisBlock>>
                ELSE chain' \in SortedByIndex(blocksCollection)
             /\ ~electionStateDoc'.exists]_vars

\* after a restart over a store of two blocks, getDoc failed: memory is the
\* genesis block alone
C24_Witness ==
    /\ last.op = "load"
    /\ last.error = "getDoc"
    /\ Cardinality(blocksCollection) = 2
    /\ Fallback

\* a vote of voter v was accepted by POST /vote
Accepted(v) == \E k \in DOMAIN admitted : admitted[k].voterId = v

\* a block of the chain holds a vote of voter v
InChain(v) == \E k \in DOMAIN chain : v \in VotersOf(chain[k])

\* a block holding a vote of voter v was refused by the store: it is in the
\* chain, not in the store, and no call still awaits its setDoc
SaveRejected(v) ==
    \E k \in DOMAIN chain :
       /\ v \in VotersOf(chain[k])
       /\ chain[k] \notin blocksCollection
       /\ \A i \in DOMAIN mining : mining[i].newBlock # chain[k]

PlacesIn(ledger, tx) ==
    {p \in (DOMAIN ledger) \X UNION {DOMAIN ledger[b].data.items : b \in DOMAIN ledger} :
        /\ p[2] \in DOMAIN ledger[p[1]].data.items
        /\ ledger[p[1]].data.items[p[2]] = tx}

PlacesOf(tx) == PlacesIn(chain, tx)

(***************************************************************************)
(* C26. Each admitted transaction is sealed into at most one block: a vote *)
(* stands in the chain no more often than it was admitted, in every        *)
(* interleaving of vote and mine requests.                                 *)
(***************************************************************************)
C26_SealedOnce ==
    \A k \in DOMAIN admitted :
       Cardinality(PlacesOf(admitted[k])) <=
          Cardinality({j \in DOMAIN admitted : admitted[j] = admitted[k]})

\* one vote admitted once stands in two blocks after a sealing whose block
\* was refused by the store and the sealing that followed it
C26_SealedTwiceAfterFailure ==
    /\ Len(admitted) = 1
    /\ Cardinality(PlacesOf(admitted[1])) = 2
    /\ mining = <<>>
    /\ Len(chain) = 3

\* transaction tx stands in the pool
InPool(tx) == \E k \in DOMAIN pendingTransactions : pendingTransactions[k] = tx

(***************************************************************************)
(* C27. No admitted vote is dropped: in every state each vote accepted by  *)
(* createVote is in the pool or in a block of the chain.                   *)
(***************************************************************************)
C27_NoVoteDropped ==
    \A k \in DOMAIN admitted : InPool(admitted[k]) \/ PlacesOf(admitted[k]) # {}

\* no call is in flight and an accepted vote is neither in the pool nor in
\* the chain
C27_DroppedForGood ==
    /\ mining = <<>>
    /\ \E k \in DOMAIN admitted : ~InPool(admitted[k]) /\ PlacesOf(admitted[k]) = {}

(***************************************************************************)
(* C28. The transactions of a block that minePendingTransactions appends   *)
(* are the pool as it was when the call started, in the same order, with   *)
(* nothing added, dropped or reordered. (The call does not touch the pool  *)
(* before its first await, so the pool right after the append is the pool  *)
(* the call started with, for POST /mine and for POST /vote alike.)        *)
(***************************************************************************)
C28_BlockIsThePool ==
    [][(isLoaded /\ Len(chain') = Len(chain) + 1) =>
          /\ IsArray(chain'[Len(chain')].data)
          /\ chain'[Len(chain')].data.items = pendingTransactions'
          /\ Len(pendingTransactions') >= 1
          /\ \/ pendingTransactions' = pendingTransactions
             \/ /\ Len(admitted') = Len(admitted) + 1
                /\ pendingTransactions' =
                      Append(pendingTransactions, admitted'[Len(admitted')])]_vars

\* a block was appended from a pool of two votes, v1's before v2's
C28_Witness ==
    /\ Len(chain) = 2
    /\ Len(mining) = 1
    /\ Len(chain[2].data.items) = 2
    /\ chain[2].data.items[1].voterId = "v1"
    /\ chain[2].data.items[2].voterId = "v2"
    /\ pendingTransactions = chain[2].data.items

(***************************************************************************)
(* C29. When the setDoc of a sealing's block has resolved, the pool is     *)
(* empty if the call had no minerAddress and is exactly one reward for     *)
(* minerAddress otherwise, the block itself being left as it was sealed;   *)
(* and a reward waiting in the pool stays there until a sealing puts it    *)
(* into a block: it is never taken out of the pool without being sealed.   *)
(***************************************************************************)
C29_RewardRidesNextBlock ==
    [][/\ \A i \in DOMAIN mining :
             mineBlockSaved(i, TRUE) =>
                /\ chain' = chain
                /\ pendingTransactions' =
                      IF Truthy(mining[i].minerAddress)
                      THEN <<RewardTransaction(mining[i].minerAddress, now')>>
                      ELSE <<>>
       /\ \A k \in DOMAIN pendingTransactions :
             pendingTransactions[k].type = "miningReward" =>
                \/ \E j \in DOMAIN pendingTransactions' :
                      pendingTransactions'[j] = pendingTransactions[k]
                \/ PlacesIn(chain', pendingTransactions[k]) # {}]_vars

(***************************************************************************)
(* C30. minePendingTransactions appends a block only when its proof of     *)
(* work is done: in every state, so whatever request looks at the chain    *)
(* and whenever, each block after the genesis block has a hash with the    *)
(* difficulty prefix that equals the hash recomputed from its fields.      *)
(***************************************************************************)
C30_AppendedBlocksSealed ==
    \A i \in DOMAIN chain :
       i > 1 => /\ MeetsDifficulty(chain[i].hash, difficulty)
                /\ chain[i].hash = calculateHash(chain[i])

\* a block whose proof of work took more than one nonce stands in the chain
\* while its sealing call awaits the store
C30_Witness ==
    /\ Len(chain) = 2
    /\ chain[2].nonce > 0
    /\ MeetsDifficulty(chain[2].hash, difficulty)
    /\ Len(mining) = 1
    /\ mining[1].pc = "saveBlock"
    /\ mining[1].newBlock = chain[2]

(***************************************************************************)
(* C31. Once the ledger is loaded, only minePendingTransactions changes    *)
(* the chain or votedUsers: registerVoter, setElectionStatus, createVote,  *)
(* getCandidates, getElectionResults and isChainValid leave both as they   *)
(* were, and registerVoter and setElectionStatus leave the pool as it was. *)
(***************************************************************************)
C31_OnlySealingWrites ==
    [][isLoaded =>
          /\ (chain' # chain \/ votedUsers' # votedUsers) =>
                last'.op = "minePendingTransactions"
          /\ last'.op \in {"registerVoter", "setElectionStatus", "createVote",
                           "getCandidates", "getElectionResults", "isChainValid"} =>
                UNCHANGED <<chain, votedUsers>>
          /\ last'.op \in {"registerVoter", "setElectionStatus"} =>
                UNCHANGED pendingTransactions]_vars

\* createVote accepted v1's vote: the vote is pending, the chain is the
\* genesis block and nobody is marked as having voted
C31_Witness ==
    /\ last.op = "createVote"
    /\ last.error = "none"
    /\ Len(pendingTransactions) = 1
    /\ Len(chain) = 1
    /\ votedUsers = {}

\* the transactions of type 'vote' in a sequence of transactions
VotesAmong(txs) == {txs[k] : k \in {j \in DOMAIN txs : txs[j].type = "vote"}}

\* the transactions of type 'vote' in the blocks of ledger
VotesSealed(ledger) == UNION {VotesAmong(ledger[b].data.items) : b \in DOMAIN ledger}

(***************************************************************************)
(* C32. Every vote in the pool or in a block of the chain is one that a    *)
(* successful createVote made; and createVote makes a vote only with the   *)
(* election open, for a known candidate and for a voter who is registered  *)
(* at that moment.                                                         *)
(***************************************************************************)
C32_VotesComeFromCreateVote ==
    [][/\ \A tx \in VotesAmong(pendingTransactions') \cup VotesSealed(chain') :
             \E k \in DOMAIN admitted' : admitted'[k] = tx
       /\ admitted' # admitted =>
             /\ Len(admitted') = Len(admitted) + 1
             /\ SubSeq(admitted', 1, Len(admitted)) = admitted
             /\ isElectionOpen
             /\ admitted'[Len(admitted')].type = "vote"
             /\ admitted'[Len(admitted')].voterId \in registeredVoters
             /\ admitted'[Len(admitted')].candidateId \in CandidateIds
             /\ admitted'[Len(admitted')] = pendingTransactions'[Len(pendingTransactions')]]_vars

\* v1's vote stands in block 1 and v2's vote, admitted later, in the pool
C32_Witness ==
    /\ Len(chain) = 2
    /\ \E tx \in VotesSealed(chain) : tx.voterId = "v1"
    /\ \E tx \in VotesAmong(pendingTransactions) : tx.voterId = "v2"
    /\ Len(admitted) = 2

(***************************************************************************)
(* C33. mineBlock(d) on a freshly constructed block ends with the nonce    *)
(* the least n >= 0 for which the hash of the block's fields with nonce n  *)
(* has d leading zeros, and with that hash as its hash; when the hash at   *)
(* nonce 0 has them already the block is left as it was; index, timestamp, *)
(* data and previousHash are never changed.                                *)
(***************************************************************************)
C33_LeastNonce ==
    [][\A d \in 0..difficulty :
          CallMineBlock(d) =>
             LET b == mining[1].newBlock
                 m == mining'[1].newBlock
                 HashAt(n) == calculateHash([b EXCEPT !.nonce = n])
             IN  /\ b.nonce = 0 /\ b.hash = HashAt(0)
                 /\ MeetsDifficulty(HashAt(m.nonce), d)
                 /\ \A n \in 0..(m.nonce - 1) : ~MeetsDifficulty(HashAt(n), d)
                 /\ m.hash = HashAt(m.nonce)
                 /\ MeetsDifficulty(HashAt(0), d) => m = b
                 /\ m.index = b.index
                 /\ m.timestamp = b.timestamp
                 /\ m.data = b.data
                 /\ m.previousHash = b.previousHash]_vars

\* a block that needed three increments of the nonce has been mined
C33_Witness ==
    /\ mining[1].pc = "mined"
    /\ mining[1].newBlock.nonce = 3
    /\ MeetsDifficulty(mining[1].newBlock.hash, difficulty)

\* C34 as stated: when isChainValid returns true every block, the genesis
\* block included, carries the hash of its stored fields
C34_ValidMeansEveryHashRecomputes ==
    (last.op = "isChainValid" /\ last.value.valid) =>
       \A i \in DOMAIN chain : chain[i].hash = calculateHash(chain[i])

(***************************************************************************)
(* C34. When isChainValid returns true, every block after the genesis      *)
(* block carries the hash of its stored fields, so content altered in such *)
(* a block without a new hash is detected. The genesis block's own hash is *)
(* not looked at: the loop starts at index 1.                              *)
(***************************************************************************)
C34_ValidMeansLaterHashesRecompute ==
    /\ (last.op = "isChainValid" /\ last.value.valid) =>
          \A i \in 2..Len(chain) : chain[i].hash = calculateHash(chain[i])
    /\ (\E i \in 2..Len(chain) : chain[i].hash # calculateHash(chain[i])) => ~isChainValid

\* a call returned true for a chain of two or more blocks whose genesis
\* block no longer carries the hash of its fields
C34_Witness ==
    /\ last.op = "isChainValid"
    /\ last.value.valid
    /\ Len(chain) >= 2
    /\ chain[1].hash # calculateHash(chain[1])

(***************************************************************************)
(* C35. A sealing whose block the store refused leaves the ledger in       *)
(* memory as it was before the attempt: the pool and votedUsers are        *)
(* unchanged and the chain holds no block but those the store has taken or *)
(* a call still in flight is saving.                                       *)
(***************************************************************************)
C35_FailedSealingUndone ==
    [][last'.error = "BlockSaveFailed" =>
          /\ UNCHANGED <<pendingTransactions, votedUsers>>
          /\ \A k \in DOMAIN chain' :
                \/ chain'[k] \in blocksCollection'
                \/ \E i \in DOMAIN mining' : mining'[i].newBlock = chain'[k]]_vars

\* no call is in flight and the chain ends with a block the store never took
C35_UnsavedBlockStays ==
    /\ mining = <<>>
    /\ Len(chain) >= 2
    /\ chain[Len(chain)] \notin blocksCollection

\* the sum of the vote counts of candidates[1..k] in a result of getElectionResults
RECURSIVE TotalVotes(_, _)
TotalVotes(results, k) ==
    IF k = 0 THEN 0 ELSE results[candidates[k].id].votes + TotalVotes(results, k - 1)

(***************************************************************************)
(* C36. Whenever the ledger is loaded and no operation is in flight, the   *)
(* vote counts getElectionResults returns add up to the number of voters   *)
(* in votedUsers.                                                          *)
(***************************************************************************)
C36_TallyMatchesVotedUsers ==
    (isLoaded /\ mining = <<>>) =>
       TotalVotes(getElectionResults, Len(candidates)) = Cardinality(votedUsers)

\* no call is in flight, one voter is marked and the tally counts two votes
C36_OneVoterTwoVotes ==
    /\ isLoaded
    /\ mining = <<>>
    /\ Cardinality(votedUsers) = 1
    /\ TotalVotes(getElectionResults, Len(candidates)) = 2

\* the chains a load whose store reads succeed can build from the store:
\* lines 97-110
ReloadedChains ==
    IF blocksCollection = {} THEN {<<createGenesisBlock>>}
    ELSE SortedByIndex(blocksCollection)

\* the election state such a load ends with: lines 115-137 over the
\* constructor's empty state
ReloadedState ==
    IF electionStateDoc.exists
    THEN <<electionStateDoc.votedUsers, electionStateDoc.registeredVoters,
           electionStateDoc.isElectionOpen>>
    ELSE <<{}, {}, FALSE>>

(***************************************************************************)
(* C37. Restart round trip: whenever the ledger is loaded and no operation *)
(* is in flight, a load from the store whose reads succeed would build the *)
(* chain that is in memory and the votedUsers, registeredVoters and        *)
(* isElectionOpen that are in memory, and that chain passes isChainValid;  *)
(* also after block or state writes have failed.                           *)
(***************************************************************************)
C37_RestartRoundTrip ==
    (isLoaded /\ mining = <<>>) =>
       /\ ReloadedChains = {chain}
       /\ ReloadedState = <<votedUsers, registeredVoters, isElectionOpen>>
       /\ isChainValid

\* the server was restarted and has loaded the store without a failure; the
\* vote it had accepted and sealed before the restart is in no block
C37_VoteLostOnReload ==
    /\ restarts = 1
    /\ isLoaded
    /\ last.op = "load"
    /\ last.error = "none"
    /\ Len(admitted) = 1
    /\ PlacesOf(admitted[1]) = {}

\* C38 as stated: in a step that begins and ends with the election closed,
\* neither the tally nor votedUsers changes
C38_TallyFrozenWhileClosed ==
    [][(isLoaded /\ ~isElectionOpen /\ ~isElectionOpen') =>
          /\ getElectionResults' = getElectionResults
          /\ votedUsers' = votedUsers]_vars

(***************************************************************************)
(* C38. While the election is closed no vote is admitted: every createVote *)
(* fails with the election-closed error, and the pool gains no vote. The   *)
(* chain, and with it the tally, and votedUsers change in that period only *)
(* by a step of minePendingTransactions, which marks no voter but those of *)
(* votes admitted while the election was open.                             *)
(***************************************************************************)
C38_NoAdmissionWhileClosed ==
    [][(isLoaded /\ ~isElectionOpen /\ ~isElectionOpen') =>
          /\ admitted' = admitted
          /\ VotesAmong(pendingTransactions') \subseteq VotesAmong(pendingTransactions)
          /\ last'.op = "createVote" => last'.error = "ElectionClosed"
          /\ (chain' # chain \/ votedUsers' # votedUsers) =>
                /\ last'.op = "minePendingTransactions"
                /\ votedUsers' \subseteq
                      votedUsers \cup {admitted[k].voterId : k \in DOMAIN admitted}]_vars

\* the election is closed and the one sealing there has been has just marked
\* v1, whose vote was admitted before the election was closed
C38_Witness ==
    /\ ~isElectionOpen
    /\ Len(chain) = 2
    /\ Len(mining) = 1
    /\ mining[1].pc = "saveState"
    /\ last.op = "minePendingTransactions"
    /\ votedUsers = {"v1"}

BuiltByProgram(b) ==
    \/ b.index = 0 /\ b.previousHash = "0" /\ b.timestamp = "2023-01-01"
          /\ ~IsArray(b.data)
    \/ b.index >= 1 /\ b.previousHash \in DigestTexts /\ Len(b.timestamp) = 1
          /\ IsArray(b.data)

C39_BuiltBlocksDiffer ==
    (Len(mining) = 1 /\ mining[1].pc = "constructed" /\ BuiltByProgram(mining[1].newBlock)) =>
        \A c \in TextBlocks :
            (BuiltByProgram(c) /\ calculateHashInput(c) = mining[1].newBlock.hash.pre) =>
                [c EXCEPT !.hash = mining[1].newBlock.hash] = mining[1].newBlock

====
